---- MODULE Spec2Model ----
(***************************************************************************)
(* start_ml.py: the environment verifier of the ml-project template.       *)
(*                                                                         *)
(* test_ml_stack() runs ten import statements and seven print statements   *)
(* inside one try block whose only handler is `except ImportError as e`.   *)
(* The model is the statement-by-statement execution of that block, run    *)
(* in an environment that fixes what each `import X` does: bind the        *)
(* module, or raise an exception.                                          *)
(*                                                                         *)
(* Text: the source's emoji are written in ASCII here:                     *)
(*   "[OK] " for U+2705, "[X] " for U+274C, "[ROCKET] " for U+1F680.       *)
(* stdout and stderr are sequences of lines; print(s) writes s and a       *)
(* newline, so a text holding k newline characters makes k+1 lines.        *)
(***************************************************************************)
EXTENDS Naturals, Integers, Sequences, FiniteSets

VARIABLES
    env,        \* what `import c` does in this environment, per capability
    pc,         \* where the program is: NotStarted, try, except, returned,
                \* raised (an exception left test_ml_stack), exited
    ip,         \* index in Body of the next statement of the try block
    exc,        \* the exception a load raised (in flight, then bound to `e`,
                \* kept here once handled), else NoException
    modules,    \* the capabilities imported (bound) so far
    attempted,  \* the import statements executed so far, in order
    stdout,     \* the lines written to standard output
    stderr,     \* the lines written to standard error
    exitStatus  \* the process exit status, NotExited while running

vars == <<env, pc, ip, exc, modules, attempted, stdout, stderr, exitStatus>>

---------------------------------------------------------------------------
(* Bounds *)

\* At most this many installed capabilities have import-time code that raises.
MaxBroken == 2

---------------------------------------------------------------------------
(* The program text *)

\* The ten capabilities, in the order of the import statements.
Capabilities ==
    << "pandas", "numpy", "sklearn", "duckdb",
       "pymysql", "psycopg2",
       "torch", "transformers",
       "pytesseract", "cv2" >>

CapabilitySet == { Capabilities[i] : i \in 1..Len(Capabilities) }

\* The texts printed, each as the lines it makes on stdout.
CoreOK     == << "[OK] Core data science stack: OK" >>
DatabaseOK == << "[OK] Database connectors: OK" >>
MLOK       == << "[OK] ML frameworks: OK" >>
OCROK      == << "[OK] OCR tools: OK" >>
\* "\n[ROCKET] ML/AI environment is ready!": the text starts with a newline,
\* so it makes an empty line and then the banner line.
ReadyBanner   == << "", "[ROCKET] ML/AI environment is ready!" >>
JupyterHint   == << "Run 'jupyter' to start Jupyter Lab" >>
StreamlitHint == << "Run 'streamlit run app.py' for Streamlit apps" >>

ImportStmt(c) == [op |-> "import", module |-> c, text |-> << >>]
EmitStmt(t)   == [op |-> "print",  module |-> "", text |-> t]

\* Body with each group's success line printed before the group is loaded.
BodyReportsFirst ==
    << EmitStmt(CoreOK),
       ImportStmt("pandas"), ImportStmt("numpy"),
       ImportStmt("sklearn"), ImportStmt("duckdb"),
       EmitStmt(DatabaseOK),
       ImportStmt("pymysql"), ImportStmt("psycopg2"),
       EmitStmt(MLOK),
       ImportStmt("torch"), ImportStmt("transformers"),
       EmitStmt(OCROK),
       ImportStmt("pytesseract"), ImportStmt("cv2"),
       EmitStmt(ReadyBanner),
       EmitStmt(JupyterHint),
       EmitStmt(StreamlitHint) >>

\* Body without the newline that starts the ready banner's text.
BodyBannerOneLine ==
    << ImportStmt("pandas"), ImportStmt("numpy"),
       ImportStmt("sklearn"), ImportStmt("duckdb"),
       EmitStmt(CoreOK),
       ImportStmt("pymysql"), ImportStmt("psycopg2"),
       EmitStmt(DatabaseOK),
       ImportStmt("torch"), ImportStmt("transformers"),
       EmitStmt(MLOK),
       ImportStmt("pytesseract"), ImportStmt("cv2"),
       EmitStmt(OCROK),
       EmitStmt(<< ReadyBanner[2] >>),
       EmitStmt(JupyterHint),
       EmitStmt(StreamlitHint) >>

\* The statements of the try block, lines 10 to 33.
Body ==
    << ImportStmt("pandas"), ImportStmt("numpy"),
       ImportStmt("sklearn"), ImportStmt("duckdb"),
       EmitStmt(CoreOK),
       ImportStmt("pymysql"), ImportStmt("psycopg2"),
       EmitStmt(DatabaseOK),
       ImportStmt("torch"), ImportStmt("transformers"),
       EmitStmt(MLOK),
       ImportStmt("pytesseract"), ImportStmt("cv2"),
       EmitStmt(OCROK),
       EmitStmt(ReadyBanner),
       EmitStmt(JupyterHint),
       EmitStmt(StreamlitHint) >>

---------------------------------------------------------------------------
(* Exceptions *)

NoException == [type |-> "None", msg |-> ""]

\* `import c` when c is not installed: ModuleNotFoundError, whose text names c.
NotInstalled(c) ==
    [type |-> "ModuleNotFoundError", msg |-> "No module named '" \o c \o "'"]

\* What the import-time code of an installed capability can raise: an
\* ImportError of its own (here a shared library its extension module needs),
\* or an exception that is no ImportError (here numpy's ABI check).
RaisedInside ==
    { [type |-> "ImportError",
       msg  |-> "libGL.so.1: cannot open shared object file"],
      [type |-> "ValueError",
       msg  |-> "numpy.dtype size changed, may indicate binary incompatibility"] }

\* IsImportError matching the class ImportError alone, not its subclasses.
IsImportErrorExact(e) == e.type = "ImportError"

\* The classes `except ImportError` catches: ImportError and its subclass.
IsImportError(e) == e.type \in {"ImportError", "ModuleNotFoundError"}

\* f"[X] Missing dependency: {e}", as the line print makes of it.
FailureLine(e) == << "[X] Missing dependency: " \o e.msg >>

\* The report the interpreter writes for an exception nobody caught.
Traceback(e) ==
    << "Traceback (most recent call last):", e.type \o ": " \o e.msg >>

\* The value of exitStatus while the process runs.
NotExited == -1

---------------------------------------------------------------------------
(* Environments *)

\* The subsets of S with at most n elements.
RECURSIVE SubsetsUpTo(_, _)
SubsetsUpTo(S, n) ==
    IF n = 0 THEN { {} }
    ELSE LET P == SubsetsUpTo(S, n - 1)
         IN  P \cup { p \cup {c} : p \in P, c \in S }

\* The environment where the capabilities of `missing` are not installed and
\* the import-time code of those in DOMAIN broken raises what broken says.
Environment(missing, broken) ==
    [c \in CapabilitySet |->
        IF c \in missing THEN NotInstalled(c)
        ELSE IF c \in DOMAIN broken THEN broken[c]
        ELSE NoException]

---------------------------------------------------------------------------
(* Execution *)

\* The script is started in some environment: every subset of the
\* capabilities may be missing, and of the installed ones at most MaxBroken
\* raise at import time.
Init ==
    /\ \E missing \in SUBSET CapabilitySet :
         \E B \in SubsetsUpTo(CapabilitySet \ missing, MaxBroken) :
           \E broken \in [B -> RaisedInside] :
             env = Environment(missing, broken)
    /\ pc = "NotStarted"
    /\ ip = 1
    /\ exc = NoException
    /\ modules = {}
    /\ attempted = << >>
    /\ stdout = << >>
    /\ stderr = << >>
    /\ exitStatus = NotExited

\* The program is run as a script: line 39 calls test_ml_stack(), which
\* enters the try block.
Call ==
    /\ pc = "NotStarted"
    /\ pc' = "try"
    /\ UNCHANGED <<env, ip, exc, modules, attempted, stdout, stderr, exitStatus>>

\* RaiseTarget of a try block without the handler.
RaiseTargetPropagates(e) == "raised"

\* Where control goes when a statement of the try block raises e: to the
\* handler when `except ImportError` matches, else out of the function.
RaiseTarget(e) == IF IsImportError(e) THEN "except" ELSE "raised"

\* An import statement whose module loads: the name is bound, the next
\* statement follows.
ImportLoads ==
    /\ pc = "try"
    /\ Body[ip].op = "import"
    /\ env[Body[ip].module] = NoException
    /\ attempted' = Append(attempted, Body[ip].module)
    /\ modules' = modules \cup {Body[ip].module}
    /\ ip' = ip + 1
    /\ UNCHANGED <<env, pc, exc, stdout, stderr, exitStatus>>

\* ImportRaises with a handler around each import statement: the failure is
\* printed and the try block goes on with the next statement.
ImportRaisesResumes ==
    /\ pc = "try"
    /\ Body[ip].op = "import"
    /\ env[Body[ip].module] # NoException
    /\ attempted' = Append(attempted, Body[ip].module)
    /\ exc' = env[Body[ip].module]
    /\ stdout' = stdout \o FailureLine(env[Body[ip].module])
    /\ ip' = ip + 1
    /\ UNCHANGED <<env, pc, modules, stderr, exitStatus>>

\* An import statement that raises: the rest of the try block is skipped.
ImportRaises ==
    /\ pc = "try"
    /\ Body[ip].op = "import"
    /\ env[Body[ip].module] # NoException
    /\ attempted' = Append(attempted, Body[ip].module)
    /\ exc' = env[Body[ip].module]
    /\ pc' = RaiseTarget(env[Body[ip].module])
    /\ UNCHANGED <<env, ip, modules, stdout, stderr, exitStatus>>

\* A print statement of the try block; after the last one the function
\* returns.
Emit ==
    /\ pc = "try"
    /\ Body[ip].op = "print"
    /\ stdout' = stdout \o Body[ip].text
    /\ IF ip = Len(Body)
         THEN pc' = "returned" /\ ip' = ip
         ELSE pc' = pc /\ ip' = ip + 1
    /\ UNCHANGED <<env, exc, modules, attempted, stderr, exitStatus>>

\* Except printing the name of the capability whose import statement raised
\* instead of the exception's text.
ExceptNamesCapability ==
    /\ pc = "except"
    /\ stdout' = stdout \o FailureLine(NotInstalled(Body[ip].module))
    /\ pc' = "returned"
    /\ UNCHANGED <<env, ip, exc, modules, attempted, stderr, exitStatus>>

\* Except reporting, after the caught failure, the next capability of the
\* import order that does not load either.
ExceptReportsAll ==
    /\ pc = "except"
    /\ LET later == { j \in (ip + 1)..Len(Body) :
                        /\ Body[j].op = "import"
                        /\ env[Body[j].module] # NoException }
       IN  stdout' =
             stdout \o FailureLine(exc) \o
             (IF later = {} THEN << >>
              ELSE FailureLine(
                     env[Body[CHOOSE j \in later :
                                 \A k \in later : j <= k].module]))
    /\ pc' = "returned"
    /\ UNCHANGED <<env, ip, exc, modules, attempted, stderr, exitStatus>>

\* The handler: one print of the exception's text, then the function returns.
Except ==
    /\ pc = "except"
    /\ stdout' = stdout \o FailureLine(exc)
    /\ pc' = "returned"
    /\ UNCHANGED <<env, ip, exc, modules, attempted, stderr, exitStatus>>

\* Exit with a failure status when the handler ran.
ExitWithFailureStatus ==
    /\ pc = "returned"
    /\ exitStatus' = (IF exc = NoException THEN 0 ELSE 1)
    /\ pc' = "exited"
    /\ UNCHANGED <<env, ip, exc, modules, attempted, stdout, stderr>>

\* test_ml_stack() returned to line 39, the last of the script: the
\* interpreter exits with status 0.
Exit ==
    /\ pc = "returned"
    /\ exitStatus' = 0
    /\ pc' = "exited"
    /\ UNCHANGED <<env, ip, exc, modules, attempted, stdout, stderr>>

\* An exception left test_ml_stack(); line 39 has no handler, so the
\* interpreter prints the traceback and exits with status 1.
Uncaught ==
    /\ pc = "raised"
    /\ stderr' = stderr \o Traceback(exc)
    /\ exitStatus' = 1
    /\ pc' = "exited"
    /\ UNCHANGED <<env, ip, exc, modules, attempted, stdout>>

Next ==
    \/ Call
    \/ ImportLoads
    \/ ImportRaises
    \/ Emit
    \/ Except
    \/ Exit
    \/ Uncaught

Spec == Init /\ [][Next]_vars

\* One thread runs the statements one after the other, and every load is
\* taken to complete: a step that can be taken is taken.
FairSpec == Spec /\ WF_vars(Next)

---------------------------------------------------------------------------
(* Vocabulary of the properties *)

\* The four groups of the try block: the capabilities imported before each
\* success line, and that line.
Groups ==
    << [members |-> {"pandas", "numpy", "sklearn", "duckdb"}, line |-> CoreOK[1]],
       [members |-> {"pymysql", "psycopg2"},                  line |-> DatabaseOK[1]],
       [members |-> {"torch", "transformers"},                line |-> MLOK[1]],
       [members |-> {"pytesseract", "cv2"},                   line |-> OCROK[1]] >>

GroupOf(c) == CHOOSE g \in 1..Len(Groups) : c \in Groups[g].members

\* The success lines of the groups before group g, in order.
SuccessLinesBefore(g) == [i \in 1..(g - 1) |-> Groups[i].line]

BannerLine == ReadyBanner[Len(ReadyBanner)]
HintLines  == JupyterHint \o StreamlitHint

\* The exception classes the handler's clause names, subclass included.
ImportErrorTypes == {"ImportError", "ModuleNotFoundError"}

\* Every line the handler can print in the environments considered.
FailureLines ==
    { FailureLine(e)[1] :
        e \in RaisedInside \cup { NotInstalled(c) : c \in CapabilitySet } }

\* The line that names capability c as the one that is missing.
LineNaming(c) == FailureLine(NotInstalled(c))

Lines(out) == { out[i] : i \in 1..Len(out) }

\* The lines of stdout that are failure lines, in order.
Diagnostics == SelectSeq(stdout, LAMBDA l : l \in FailureLines)

\* The first capability of the import order whose load fails in env: its
\* index in Capabilities, 0 when all ten load.
FirstFailing ==
    LET F == { i \in 1..Len(Capabilities) : env[Capabilities[i]] # NoException }
    IN  IF F = {} THEN 0 ELSE CHOOSE i \in F : \A j \in F : i <= j

FirstFailingCapability == Capabilities[FirstFailing]

\* The run is over: the process has exited.
Done == pc = "exited"

---------------------------------------------------------------------------
(* C1 *)

\* C1 as stated: whenever some load fails, the finished run's output is the
\* success lines of the groups before the group of the first failing
\* capability, then one failure line naming that capability, and nothing else.
C1_FirstFailureNamed ==
    (Done /\ FirstFailing # 0) =>
        stdout = SuccessLinesBefore(GroupOf(FirstFailingCapability))
                   \o LineNaming(FirstFailingCapability)

\* C1 (amended): when the first capability whose load fails is one that is
\* not installed (its import raises ModuleNotFoundError), the finished run's
\* output is the success lines of groups 1..k-1 in order, then exactly one
\* failure line naming that capability: no success line of group k or later,
\* no ready banner, no hint line.
C1_FirstMissingNamed ==
    (/\ Done
     /\ FirstFailing # 0
     /\ env[FirstFailingCapability].type = "ModuleNotFoundError") =>
        stdout = SuccessLinesBefore(GroupOf(FirstFailingCapability))
                   \o LineNaming(FirstFailingCapability)

\* A finished run whose first failing load is the second member of group 3,
\* not installed, with a later capability missing too.
C1_Witness ==
    /\ Done
    /\ FirstFailingCapability = "transformers"
    /\ env["transformers"] = NotInstalled("transformers")
    /\ env["cv2"] = NotInstalled("cv2")
    /\ Len(stdout) = 3

---------------------------------------------------------------------------
(* C2 *)

\* C2 as stated: with all ten capabilities loadable the finished run's output
\* is exactly seven lines: the four success lines, the ready banner, the two
\* hint lines.
C2_SevenLines ==
    (Done /\ FirstFailing = 0) =>
        /\ Len(stdout) = 7
        /\ stdout = SuccessLinesBefore(Len(Groups) + 1)
                      \o << BannerLine >> \o HintLines

\* C2 (amended): with all ten capabilities loadable the finished run's output
\* is exactly eight lines in this order: the four success lines, an empty
\* line, the ready banner, the Jupyter hint and the Streamlit hint; no
\* failure line is printed.
C2_EightLines ==
    (Done /\ FirstFailing = 0) =>
        /\ Len(stdout) = 8
        /\ stdout = SuccessLinesBefore(Len(Groups) + 1)
                      \o << "", BannerLine >> \o HintLines
        /\ Diagnostics = << >>
        /\ stderr = << >>

\* A finished run in the environment where everything loads.
C2_Witness ==
    /\ Done
    /\ FirstFailing = 0
    /\ modules = CapabilitySet
    /\ exitStatus = 0

---------------------------------------------------------------------------
(* C3 *)

\* A load has failed: the exception it raised is in flight or was handled.
LoadFailed == exc # NoException

\* The capability whose load failed.
FailedCapability == attempted[Len(attempted)]

\* C3 as stated: whatever a load raises, the exception never leaves
\* test_ml_stack() nor the program, and the finished run shows it as the
\* single failure line.
C3_EveryFailureRecovered ==
    LoadFailed =>
        /\ pc # "raised"
        /\ stderr = << >>
        /\ Done => (Diagnostics = FailureLine(exc) /\ exitStatus = 0)

\* C3 (amended): a capability load that fails with an ImportError (the
\* ModuleNotFoundError of a capability that is not installed, or an
\* ImportError raised while the library's import-time code runs) is recovered
\* inside test_ml_stack(): for every one of the ten loads the failure becomes
\* the single printed failure line and no exception propagates.  A load that
\* raises any other exception is not recovered: the exception leaves the
\* routine and the program, and no failure line is printed.
C3_ImportErrorsRecovered ==
    LoadFailed =>
        IF exc.type \in ImportErrorTypes
        THEN /\ pc # "raised"
             /\ stderr = << >>
             /\ Done => (Diagnostics = FailureLine(exc) /\ exitStatus = 0)
        ELSE /\ pc \in {"raised", "exited"}
             /\ Diagnostics = << >>
             /\ Done => (stderr = Traceback(exc) /\ exitStatus = 1)

\* A finished run in which the last of the ten loads raised an ImportError
\* from inside the library and was recovered.
C3_Witness ==
    /\ Done
    /\ FirstFailingCapability = "cv2"
    /\ exc.type = "ImportError"
    /\ Len(Diagnostics) = 1

---------------------------------------------------------------------------
(* C4 *)

\* Every capability either loads or is not installed.
OnlyMissing ==
    \A c \in CapabilitySet : env[c] \in {NoException, NotInstalled(c)}

\* C4: whatever subset of the ten capabilities is missing, no exception
\* leaves test_ml_stack(): the routine never reaches the point where an
\* exception propagates to its caller, and nothing is reported as uncaught.
C4_MissingNeverRaises ==
    OnlyMissing => (pc # "raised" /\ stderr = << >>)

\* The routine has returned in the environment where all ten are missing.
C4_Witness ==
    /\ pc = "returned"
    /\ \A c \in CapabilitySet : env[c] = NotInstalled(c)
    /\ exc = NotInstalled("pandas")

---------------------------------------------------------------------------
(* C5 *)

\* C5 as stated: whatever the loads do, the run ends with exit status 0.
C5_ExitsZero == Done => exitStatus = 0

\* C5 (amended): every run of the program terminates.  It terminates with
\* exit status 0 on the success path (Ready) and on the failure path
\* (Failed, an ImportError caught by the handler); a load that raises an
\* exception that is no ImportError ends the run with exit status 1.
C5_TerminatesWithStatus ==
    /\ <>Done
    /\ [](Done =>
            exitStatus = (IF exc.type \in ImportErrorTypes \cup {"None"}
                          THEN 0 ELSE 1))

\* A run on the failure path that has ended with status 0.
C5_Witness ==
    /\ Done
    /\ exc.type = "ModuleNotFoundError"
    /\ Len(Diagnostics) = 1
    /\ exitStatus = 0

---------------------------------------------------------------------------
(* C6 *)

\* C6: loads are attempted in the import order, starting with the first and
\* skipping none; every load but the last attempted one succeeded, so a
\* capability is attempted only if all before it loaded, at most one
\* attempted load fails, and nothing is attempted after it.
C6_StopsAtFirstFailure ==
    /\ Len(attempted) <= Len(Capabilities)
    /\ attempted = SubSeq(Capabilities, 1, Len(attempted))
    /\ \A i \in 1..Len(attempted) :
          /\ i < Len(attempted) => env[attempted[i]] = NoException
          /\ env[attempted[i]] = NoException <=> attempted[i] \in modules
    /\ LoadFailed =>
          (attempted # << >> /\ env[FailedCapability] = exc)

\* A finished run stopped by the second member of group 1, with the rest of
\* the group and later groups unavailable too.
C6_Witness ==
    /\ Done
    /\ attempted = << "pandas", "numpy" >>
    /\ env["numpy"] # NoException
    /\ env["sklearn"] # NoException
    /\ env["torch"] # NoException

---------------------------------------------------------------------------
(* C7 *)

\* The capabilities of groups 1..g.
MembersUpTo(g) == UNION { Groups[i].members : i \in 1..g }

Loaded(S) == \A c \in S : env[c] = NoException /\ c \in modules

\* C7: in every state, the success line of group g is in the output only if
\* every member of groups 1..g loaded, and the ready banner or a hint line is
\* in the output only if all ten capabilities loaded.
C7_PositiveLinesJustified ==
    /\ \A g \in 1..Len(Groups) :
          Groups[g].line \in Lines(stdout) => Loaded(MembersUpTo(g))
    /\ (Lines(stdout) \cap ({BannerLine} \cup Lines(HintLines)) # {})
          => Loaded(CapabilitySet)

\* Two success lines are out and the third group fails.
C7_Witness ==
    /\ Groups[2].line \in Lines(stdout)
    /\ env["torch"] # NoException
    /\ Done

---------------------------------------------------------------------------
(* C8 *)

\* The run went through the handler: the failure path.
FailurePath == LoadFailed /\ exc.type \in ImportErrorTypes

\* C8 as stated: on every failure path, the one where an import error is
\* raised from inside the capability included, the only diagnostic output is
\* one line naming the capability whose load failed, and no stack trace.
C8_FailureLineNamesCapability ==
    (Done /\ FailurePath) =>
        /\ Diagnostics = LineNaming(FailedCapability)
        /\ stderr = << >>

\* C8 (amended): on every failure path the only diagnostic output is one line
\* carrying the message of the ImportError caught, and no stack trace is
\* shown.  The line names the probed capability when that
\* capability is not installed; when the ImportError is raised from inside
\* the capability, the line carries the inner error's text instead.
C8_FailureLineCarriesMessage ==
    (Done /\ FailurePath) =>
        /\ Diagnostics = FailureLine(env[FailedCapability])
        /\ stderr = << >>
        /\ env[FailedCapability].type = "ModuleNotFoundError"
              => Diagnostics = LineNaming(FailedCapability)

\* A finished failure path whose ImportError came from inside the capability:
\* the one diagnostic line does not name the capability.
C8_Witness ==
    /\ Done
    /\ exc.type = "ImportError"
    /\ FailedCapability = "pytesseract"
    /\ Len(Diagnostics) = 1
    /\ Diagnostics # LineNaming(FailedCapability)

---------------------------------------------------------------------------
(* C9 *)

\* The group statement i of the try block belongs to: one more than the
\* number of success lines printed before it.  It exceeds the number of
\* groups for the banner and the hints.
StmtGroup(i) == 1 + Cardinality({ j \in 1..(i - 1) : Body[j].op = "print" })

\* The state of the routine: NotStarted, CheckingGroup (of group Group),
\* Ready once all four groups are through, Failed once an ImportError is
\* caught, Propagated when an exception left the routine.
Machine ==
    IF pc = "NotStarted" THEN "NotStarted"
    ELSE IF LoadFailed
         THEN (IF FailurePath THEN "Failed" ELSE "Propagated")
         ELSE IF pc = "try" /\ StmtGroup(ip) <= Len(Groups)
              THEN "CheckingGroup"
              ELSE "Ready"

\* The index of the group being checked, or checked last.
Group == IF StmtGroup(ip) <= Len(Groups) THEN StmtGroup(ip) ELSE Len(Groups)

HasFailureLine == Lines(stdout) \cap FailureLines # {}

HasLastHint == StreamlitHint[1] \in Lines(stdout)

\* The steps of the machine: NotStarted to CheckingGroup(1), CheckingGroup(i)
\* to itself or CheckingGroup(i+1), CheckingGroup(4) to Ready, CheckingGroup(i)
\* to Failed when a load raises an import error (and out of the routine when
\* it raises anything else); nothing leaves Ready or Failed.
MachineStep ==
    \/ /\ Machine = "NotStarted"
       /\ Machine' = "NotStarted" \/ (Machine' = "CheckingGroup" /\ Group' = 1)
    \/ /\ Machine = "CheckingGroup"
       /\ \/ Machine' = "CheckingGroup" /\ Group' \in {Group, Group + 1}
          \/ Machine' = "Ready" /\ Group = Len(Groups)
          \/ /\ Machine' = "Failed"
             /\ exc'.type \in ImportErrorTypes
             /\ Len(attempted') = Len(attempted) + 1
             /\ Group' = Group
          \/ /\ Machine' = "Propagated"
             /\ exc'.type \notin ImportErrorTypes
    \/ Machine \in {"Ready", "Failed", "Propagated"} /\ Machine' = Machine

\* Ready and Failed are terminal: no load in either, and no load and no
\* output after the failure line or after the last hint line.
TerminalStep ==
    /\ Machine \in {"Ready", "Failed"} => attempted' = attempted
    /\ (HasFailureLine \/ HasLastHint) =>
          (stdout' = stdout /\ attempted' = attempted /\ modules' = modules)

---------------------------------------------------------------------------
(* C10 *)

\* The whole output of a run in which all ten capabilities load.
ReadyOutput == SuccessLinesBefore(Len(Groups) + 1) \o ReadyBanner \o HintLines

\* The output of the run in which capability number k is the first one
\* unavailable, there being not installed; ReadyOutput for k = 0.
OutputOf(k) ==
    IF k = 0 THEN ReadyOutput
    ELSE SuccessLinesBefore(GroupOf(Capabilities[k]))
           \o LineNaming(Capabilities[k])

\* C10 as stated: the output is a function of the first unavailable
\* capability alone, so every finished run has the output of the run where
\* that capability is simply not installed.
C10_OutputOfFirstUnavailable ==
    Done => stdout = OutputOf(FirstFailing)

\* The output as a function of the first unavailable capability k and of the
\* exception e its load raises.
OutputOfFailure(k, e) ==
    IF k = 0 THEN ReadyOutput
    ELSE SuccessLinesBefore(GroupOf(Capabilities[k]))
           \o (IF e.type \in ImportErrorTypes THEN FailureLine(e) ELSE << >>)

\* C10 (amended): the output of test_ml_stack() depends only on which
\* capability is the first unavailable one in the import order and on the
\* exception its load raises (an ImportError's message is printed, any other
\* exception prints no failure line).  Runs that agree on both produce the
\* same output whatever the availability of the capabilities after it; a
\* second unavailable capability is never reported.
C10_OutputOfFirstFailure ==
    Done =>
        stdout = OutputOfFailure(FirstFailing,
                   IF FirstFailing = 0 THEN NoException
                   ELSE env[FirstFailingCapability])

\* A finished run with three capabilities missing, one in each of the groups
\* 2, 3 and 4: only the first is reported.
C10_Witness ==
    /\ Done
    /\ FirstFailingCapability = "psycopg2"
    /\ env["torch"] = NotInstalled("torch")
    /\ env["cv2"] = NotInstalled("cv2")
    /\ Diagnostics = LineNaming("psycopg2")

====
